---- MODULE Spec2Model ----
(***************************************************************************)
(* Model of src/src/App.tsx (ai-gesture-controller): the session set up by *)
(* the component's effect (initialize, initThreeScene, initWebcam), its    *)
(* teardown (the effect cleanup), and the per-frame loop (predictWebcam,   *)
(* update3DObject).                                                        *)
(*                                                                         *)
(* Numbers.  The code computes in IEEE doubles; the model computes exactly *)
(* in scaled integers.  Landmark coordinates and the pinch distance are in *)
(* hundredths of the normalised image.  Rotations are in units of          *)
(* 1/(1000*Scale) radian and camera distances in units of 1/(10*Scale),    *)
(* where Scale = 10^MaxTicks: every tick can interpolate by 1/10 once, so  *)
(* after at most MaxTicks ticks every value is still an integer and no     *)
(* division in the model rounds.                                           *)
(***************************************************************************)
EXTENDS Integers, FiniteSets, Sequences, TLC

\* ---------------------------------------------------------------- bounds
\* Number of executions of predictWebcam in one run.
MaxTicks == 3

RECURSIVE Pow10(_)
Pow10(n) == IF n = 0 THEN 1 ELSE 10 * Pow10(n - 1)

Scale == Pow10(MaxTicks)
\* camera distance 1.0, in zoom units
ZoomUnit == 10 * Scale

\* ------------------------------------------------------ program constants
\* Math.PI in thousandths (3.142)
PiMilli == 3142
\* rotation gain 2.5, in tenths
GainTenths == 25
\* interpolation factor 0.1, in tenths
LerpTenths == 1
\* pinch distances 0.05 and 0.3, in hundredths
PinchNear == 5
PinchFar == 30
\* camera distances mapped to the two pinch distances, and the clamp range
ZoomFar == 8
ZoomNear == 3
\* camera.position.z set by initThreeScene
CameraStartZ == 5
\* idle increments 0.002 (y) and 0.001 (x), in thousandths of a radian
IdleYMilli == 2
IdleXMilli == 1
\* indices of the thumb tip and the index finger tip
ThumbTipIdx == 4
IndexTipIdx == 8
\* keypoints of a complete hand
FullHand == 21
\* HTMLMediaElement.HAVE_CURRENT_DATA
HaveCurrentData == 2

\* ----------------------------------------------------------- pure helpers
Min(a, b) == IF a < b THEN a ELSE b
Max(a, b) == IF a > b THEN a ELSE b
Abs(a) == IF a < 0 THEN -a ELSE a

\* Math.sqrt on a perfect square (the inputs below only produce those)
Sqrt(n) == CHOOSE r \in 0..n : r * r <= n /\ n < (r + 1) * (r + 1)

\* THREE.MathUtils.lerp(x, y, t) = (1 - t) * x + t * y, t in tenths
lerp(x, y, t) == ((10 - t) * x + t * y) \div 10

\* THREE.MathUtils.mapLinear(x, a1, a2, b1, b2)
mapLinear(x, a1, a2, b1, b2) == b1 + ((x - a1) * (b2 - b1)) \div (a2 - a1)

\* THREE.MathUtils.clamp(value, min, max)
clamp(value, lo, hi) == Max(lo, Min(hi, value))


\* ------------------------------------------------------------ input sets
Point(px, py) == [x |-> px, y |-> py]

\* positions of the index finger tip (hundredths)
TipSet == {Point(50, 50), Point(70, 30)}
\* thumb tip minus index tip; the distances are 0, 5, 10, 20, 30 and 40
PinchOffsets == {<<0, 0>>, <<3, 4>>, <<6, 8>>, <<12, 16>>, <<18, 24>>, <<24, 32>>}

\* a hand of n keypoints: a JavaScript array, indexed from 0
MkHand(n, thumb, tip) ==
    [i \in 0..(n - 1) |->
        IF i = ThumbTipIdx THEN thumb
        ELSE IF i = IndexTipIdx THEN tip
        ELSE Point(50, 50)]

CompleteHands ==
    {MkHand(FullHand, Point(t.x + o[1], t.y + o[2]), t) : t \in TipSet, o \in PinchOffsets}

\* hands with fewer than 21 keypoints: empty, without index 8, with 4 and 8
ShortHands ==
    {MkHand(n, Point(56, 58), Point(50, 50)) : n \in {0, ThumbTipIdx + 1, IndexTipIdx + 1}}

\* results.landmarks as detectForVideo returns it (numHands: 1)
DetectionResults == {<<>>} \cup {<<h>> : h \in CompleteHands \cup ShortHands}

\* video.readyState values offered to a tick
ReadyStates == {HaveCurrentData - 1, HaveCurrentData}

\* ------------------------------------------------------------------ state
VARIABLES
    \* initialize(): closure and position
    isMounted,          \* let isMounted
    pc,                 \* the await initialize() is suspended at, or "hung"/"done"
    resizeHandler,      \* let resizeHandler: "undefined", "noop" or "handleResize"
    \* React state
    loading, status, error, showInstructions,
    \* refs and what they point to
    refsAttached,       \* videoRef/threeCanvasRef/webcamCanvasRef .current non-null
    handLandmarkerRef,  \* handLandmarkerRef.current non-null
    animationFrameId,   \* animationFrameId.current (0: null)
    sceneReady,         \* threeSceneRef has its scene, camera, renderer, shape
    shapeRotX, shapeRotY, cameraZ,
    \* browser
    resizeListener,     \* handleResize is registered on window
    stream,             \* the camera stream: "none", "requested", "denied", "live", "stopped"
    srcObject,          \* video.srcObject is the stream
    rafPending,         \* animation frame requests not yet run or cancelled
    nextRafId,          \* the id the next requestAnimationFrame returns
    videoTime,          \* video.currentTime
    \* startPredictionLoop(): closure
    lastVideoTime,
    \* observation of the run (not program state)
    cleanedUp,          \* the effect cleanup has run
    setupFailed,        \* a setup step failed while isMounted
    loopStarted,        \* predictWebcam was called by startPredictionLoop
    ticks,              \* executions of predictWebcam
    renders,            \* renderer.render calls
    detectCalls,        \* detectForVideo calls
    threw,              \* predictWebcam ended by an exception
    det,                \* last tick: "none", "notready", "skipped", "nohand", "hand"
    detLen,             \* last tick: keypoints of the detected hand (0 if none)
    applied,            \* last tick: "none", "gesture" or "idle" was applied to the shape
    lastProcessed,      \* detection of the last processed frame: "none", "nohand", "hand"
    target              \* last update3DObject: its targets and pinch distance

progVars == <<isMounted, pc, resizeHandler, loading, status, error, showInstructions,
              refsAttached, handLandmarkerRef, animationFrameId, sceneReady,
              shapeRotX, shapeRotY, cameraZ, resizeListener, stream, srcObject,
              rafPending, nextRafId, videoTime, lastVideoTime>>
obsVars == <<cleanedUp, setupFailed, loopStarted, ticks, renders, detectCalls, threw,
             det, detLen, applied, lastProcessed, target>>
vars == <<progVars, obsVars>>

setupVars == <<pc, resizeHandler, loading, status, error, showInstructions,
               handLandmarkerRef, sceneReady, resizeListener, stream, srcObject,
               setupFailed>>
tickVars == <<animationFrameId, rafPending, nextRafId, videoTime, lastVideoTime,
              ticks, renders, detectCalls, threw, det, detLen, applied, lastProcessed,
              target>>
sceneVars == <<sceneReady, shapeRotX, shapeRotY, cameraZ, resizeListener, resizeHandler>>
uiVars == <<loading, status, error, showInstructions>>

NoTarget == [rotX |-> 0, rotY |-> 0, zoom |-> 0, distance |-> 0, raw |-> 0]

\* --------------------------------------------------------- update3DObject
\* (indexFingerTip.c - 0.5) * Math.PI * 2.5, in rotation units
RotationTarget(c) == (((c - 50) * PiMilli * GainTenths) \div 1000) * Scale

\* lines 270-272: the thumb tip / index tip distance, in hundredths
PinchDistance(thumbTip, indexFingerTip) ==
    LET dx == thumbTip.x - indexFingerTip.x
        dy == thumbTip.y - indexFingerTip.y
    IN  Sqrt(dx * dx + dy * dy)

\* line 274: mapLinear(distance, 0.05, 0.3, 8, 3), in zoom units
ZoomLevelUninverted(distance) ==
    mapLinear(distance, PinchNear, PinchFar, ZoomNear * ZoomUnit, ZoomFar * ZoomUnit)
ZoomLevel(distance) ==
    mapLinear(distance, PinchNear, PinchFar, ZoomFar * ZoomUnit, ZoomNear * ZoomUnit)

\* line 275: clamp(zoomLevel, 3, 8)
ClampedZoomRaw(distance) == ZoomLevel(distance)
ClampedZoom(distance) == clamp(ZoomLevel(distance), ZoomNear * ZoomUnit, ZoomFar * ZoomUnit)

\* lines 263, 264, 276: lerp(current, target, 0.1)
SmoothSwapped(current, tgt) == lerp(tgt, current, LerpTenths)
Smooth(current, tgt) == lerp(current, tgt, LerpTenths)

\* update3DObject(landmarks) on the shape rotation and camera distance given;
\* reading .x of a keypoint the array does not have throws a TypeError.
Update3DObject(landmarks, rx, ry, cz) ==
    LET same == [rotX |-> rx, rotY |-> ry, camZ |-> cz, threw |-> FALSE,
                 done |-> FALSE, tgt |-> NoTarget]
    IN
    IF ~sceneReady THEN same
    ELSE IF IndexTipIdx \notin DOMAIN landmarks THEN [same EXCEPT !.threw = TRUE]
    ELSE
        LET indexFingerTip == landmarks[IndexTipIdx]
            rotationY == RotationTarget(indexFingerTip.x)
            rotationX == RotationTarget(indexFingerTip.y)
            newY == Smooth(ry, rotationY)
            newX == Smooth(rx, rotationX)
        IN
        IF ThumbTipIdx \notin DOMAIN landmarks
        THEN [same EXCEPT !.rotX = newX, !.rotY = newY, !.threw = TRUE]
        ELSE
            LET distance == PinchDistance(landmarks[ThumbTipIdx], indexFingerTip)
                clampedZoom == ClampedZoom(distance)
            IN  [rotX |-> newX, rotY |-> newY,
                 camZ |-> Smooth(cz, clampedZoom),
                 threw |-> FALSE, done |-> TRUE,
                 tgt |-> [rotX |-> rotationX, rotY |-> rotationY, zoom |-> clampedZoom,
                          distance |-> distance, raw |-> ZoomLevel(distance)]]

\* ---------------------------------------------------------- predictWebcam
\* lines 242-243: shape.rotation.y += 0.002, shape.rotation.x += 0.001
IdleRotationNone(r, incMilli) == r
IdleRotation(r, incMilli) == r + incMilli * Scale

\* requestAnimationFrame(predictWebcam) after the request `fired` has run
RequestFrame(fired) ==
    /\ animationFrameId' = nextRafId
    /\ rafPending' = (rafPending \ {fired}) \cup {nextRafId}
    /\ nextRafId' = nextRafId + 1

\* One execution of predictWebcam. fired: the animation frame request that
\* runs it (0 for the direct call of startPredictionLoop); readyState,
\* advance and results: video.readyState, whether the camera has produced a
\* new frame since the last tick, and what detectForVideo returns if called.
PredictWebcam(fired, readyState, advance, results) ==
    LET time == videoTime + advance IN
    /\ videoTime' = time
    /\ ticks' = ticks + 1
    /\ IF ~refsAttached \/ readyState < HaveCurrentData
       THEN /\ RequestFrame(fired)
            /\ det' = "notready" /\ detLen' = 0 /\ applied' = "none"
            /\ UNCHANGED <<shapeRotX, shapeRotY, cameraZ, lastVideoTime, renders,
                           detectCalls, threw, lastProcessed, target>>
       ELSE
            LET processed == time # lastVideoTime
                hasHand == processed /\ Len(results) > 0
                same == [rotX |-> shapeRotX, rotY |-> shapeRotY, camZ |-> cameraZ,
                         threw |-> FALSE, done |-> FALSE, tgt |-> target]
                u == IF hasHand
                     THEN Update3DObject(results[1], shapeRotX, shapeRotY, cameraZ)
                     ELSE same
                \* line 241: !results?.landmarks || results.landmarks.length === 0
                noLandmarks == ~processed \/ Len(results) = 0
                idle == sceneReady /\ noLandmarks
            IN
            /\ lastVideoTime' = IF processed THEN time ELSE lastVideoTime
            /\ detectCalls' = IF processed THEN detectCalls + 1 ELSE detectCalls
            /\ det' = IF ~processed THEN "skipped" ELSE IF hasHand THEN "hand" ELSE "nohand"
            /\ detLen' = IF hasHand THEN Cardinality(DOMAIN results[1]) ELSE 0
            /\ lastProcessed' = IF ~processed THEN lastProcessed
                                ELSE IF hasHand THEN "hand" ELSE "nohand"
            /\ target' = IF u.done THEN u.tgt ELSE target
            /\ threw' = u.threw
            /\ cameraZ' = u.camZ
            /\ IF u.threw
               THEN \* the exception leaves predictWebcam: no render, no request
                    /\ shapeRotX' = u.rotX
                    /\ shapeRotY' = u.rotY
                    /\ applied' = "none"
                    /\ rafPending' = rafPending \ {fired}
                    /\ UNCHANGED <<renders, animationFrameId, nextRafId>>
               ELSE /\ shapeRotY' = IF idle THEN IdleRotation(u.rotY, IdleYMilli) ELSE u.rotY
                    /\ shapeRotX' = IF idle THEN IdleRotation(u.rotX, IdleXMilli) ELSE u.rotX
                    /\ applied' = IF idle THEN "idle" ELSE IF u.done THEN "gesture" ELSE "none"
                    /\ renders' = IF sceneReady THEN renders + 1 ELSE renders
                    /\ RequestFrame(fired)

\* the browser runs a pending animation frame request
Tick ==
    /\ ticks < MaxTicks
    /\ \E id \in rafPending, rs \in ReadyStates, adv \in {0, 1}, res \in DetectionResults :
           PredictWebcam(id, rs, adv, res)
    /\ UNCHANGED <<isMounted, refsAttached, cleanedUp, loopStarted>>
    /\ UNCHANGED setupVars

\* -------------------------------------------------------------- initialize
Init ==
    /\ isMounted = TRUE
    /\ pc = "vision"
    /\ resizeHandler = "undefined"
    /\ loading = TRUE
    /\ status = "Initializing Hand Landmarker..."
    /\ error = "null"
    /\ showInstructions = FALSE
    /\ refsAttached = TRUE
    /\ handLandmarkerRef = FALSE
    /\ animationFrameId = 0
    /\ sceneReady = FALSE
    /\ shapeRotX = 0 /\ shapeRotY = 0 /\ cameraZ = 0
    /\ resizeListener = FALSE
    /\ stream = "none"
    /\ srcObject = FALSE
    /\ rafPending = {}
    /\ nextRafId = 1
    /\ videoTime = 0
    /\ lastVideoTime = -1
    /\ cleanedUp = FALSE /\ setupFailed = FALSE /\ loopStarted = FALSE
    /\ ticks = 0 /\ renders = 0 /\ detectCalls = 0
    /\ threw = FALSE
    /\ det = "none" /\ detLen = 0 /\ applied = "none" /\ lastProcessed = "none"
    /\ target = NoTarget

\* lines 94-100: the catch block of initialize, for a failed setup step
CatchKeepLoading(message) ==
    /\ pc' = "done"
    /\ IF isMounted
       THEN error' = message /\ setupFailed' = TRUE /\ UNCHANGED loading
       ELSE UNCHANGED <<error, loading, setupFailed>>
Catch(message) ==
    /\ pc' = "done"
    /\ IF isMounted
       THEN error' = message /\ loading' = FALSE /\ setupFailed' = TRUE
       ELSE UNCHANGED <<error, loading, setupFailed>>

\* line 71: FilesetResolver.forVisionTasks resolves
VisionResolved ==
    /\ pc = "vision"
    /\ pc' = "model"
    /\ UNCHANGED <<isMounted, refsAttached, cleanedUp, loopStarted, handLandmarkerRef,
                   stream, srcObject, setupFailed>>
    /\ UNCHANGED <<uiVars, sceneVars, tickVars>>

\* line 71: FilesetResolver.forVisionTasks rejects
VisionRejected ==
    /\ pc = "vision"
    /\ Catch("vision")
    /\ UNCHANGED <<isMounted, refsAttached, cleanedUp, loopStarted, handLandmarkerRef,
                   stream, srcObject, status, showInstructions>>
    /\ UNCHANGED <<sceneVars, tickVars>>

\* line 72: HandLandmarker.createFromOptions rejects
ModelRejected ==
    /\ pc = "model"
    /\ Catch("model")
    /\ UNCHANGED <<isMounted, refsAttached, cleanedUp, loopStarted, handLandmarkerRef,
                   stream, srcObject, status, showInstructions>>
    /\ UNCHANGED <<sceneVars, tickVars>>

\* lines 116-175: initThreeScene
InitThreeScene ==
    IF ~refsAttached
    THEN /\ resizeHandler' = "noop"
         /\ UNCHANGED <<sceneReady, shapeRotX, shapeRotY, cameraZ, resizeListener>>
    ELSE /\ sceneReady' = TRUE
         /\ shapeRotX' = 0
         /\ shapeRotY' = 0
         /\ cameraZ' = CameraStartZ * ZoomUnit
         /\ resizeListener' = TRUE
         /\ resizeHandler' = "handleResize"

\* lines 72-86: createFromOptions resolves; initialize runs on to the scene
\* construction and to initWebcam, which rejects at once without
\* getUserMedia and otherwise requests the camera.
ModelResolved ==
    /\ pc = "model"
    /\ handLandmarkerRef' = (isMounted \/ handLandmarkerRef)
    /\ status' = "Requesting Webcam Access..."
    /\ InitThreeScene
    /\ \E hasGetUserMedia \in BOOLEAN :
           IF hasGetUserMedia
           THEN /\ stream' = "requested"
                /\ pc' = "stream"
                /\ UNCHANGED <<error, loading, setupFailed>>
           ELSE /\ Catch("Webcam API not available.")
                /\ UNCHANGED stream
    /\ UNCHANGED <<isMounted, refsAttached, cleanedUp, loopStarted, srcObject,
                   showInstructions>>
    /\ UNCHANGED tickVars

\* lines 183-188: getUserMedia resolves with the stream
StreamGranted ==
    /\ pc = "stream"
    /\ stream' = "live"
    /\ IF refsAttached
       THEN srcObject' = TRUE /\ pc' = "loaded"
       ELSE UNCHANGED srcObject /\ pc' = "hung"
    /\ UNCHANGED <<isMounted, refsAttached, cleanedUp, loopStarted, handLandmarkerRef,
                   setupFailed>>
    /\ UNCHANGED <<uiVars, sceneVars, tickVars>>

\* line 189: getUserMedia rejects
StreamDenied ==
    /\ pc = "stream"
    /\ stream' = "denied"
    /\ Catch("Permission denied")
    /\ UNCHANGED <<isMounted, refsAttached, cleanedUp, loopStarted, handLandmarkerRef,
                   srcObject, status, showInstructions>>
    /\ UNCHANGED <<sceneVars, tickVars>>

\* lines 193-253: startPredictionLoop, with the first predictWebcam
StartPredictionLoop ==
    IF ~refsAttached \/ ~handLandmarkerRef
    THEN UNCHANGED <<tickVars, shapeRotX, shapeRotY, cameraZ, loopStarted>>
    ELSE /\ loopStarted' = TRUE
         /\ \E adv \in {0, 1}, res \in DetectionResults :
                PredictWebcam(0, HaveCurrentData, adv, res)

\* lines 186, 88-100: loadeddata resolves initWebcam and initialize finishes;
\* an exception of the first predictWebcam is caught by initialize
LoadedData ==
    /\ pc = "loaded"
    /\ pc' = "done"
    /\ IF isMounted
       THEN /\ status' = "Ready! Show your hand."
            /\ showInstructions' = TRUE
            /\ StartPredictionLoop
            /\ loading' = FALSE
            /\ error' = IF threw' THEN "TypeError" ELSE error
       ELSE /\ UNCHANGED <<uiVars, tickVars, shapeRotX, shapeRotY, cameraZ, loopStarted>>
    /\ UNCHANGED <<isMounted, refsAttached, cleanedUp, handLandmarkerRef, stream,
                   srcObject, setupFailed, sceneReady, resizeListener, resizeHandler>>

\* line 327: the button of the instructions modal
DismissInstructions ==
    /\ isMounted
    /\ showInstructions
    /\ showInstructions' = FALSE
    /\ UNCHANGED <<isMounted, pc, refsAttached, cleanedUp, loopStarted, handLandmarkerRef,
                   stream, srcObject, setupFailed, loading, status, error>>
    /\ UNCHANGED <<sceneVars, tickVars>>

\* ----------------------------------------------------------------- cleanup
\* line 107: if (animationFrameId.current) cancelAnimationFrame(...)
CancelFrameNever(id, pending) == pending
CancelFrame(id, pending) == IF id # 0 THEN pending \ {id} ELSE pending

\* lines 108-111: stop the tracks of video.srcObject, if the ref has a video
StopTracks(hasVideo, hasSrc, s) ==
    IF hasVideo /\ hasSrc /\ s = "live" THEN "stopped" ELSE s

\* line 112: if (resizeHandler) window.removeEventListener('resize', resizeHandler)
RemoveListener(handler, attached) ==
    IF handler = "handleResize" THEN FALSE ELSE attached

\* lines 105-113: the effect cleanup. On a true unmount React has detached
\* the DOM refs before it runs a passive effect's cleanup; when it only
\* re-runs the effects (development mode) the refs stay attached.
Cleanup ==
    /\ isMounted
    /\ isMounted' = FALSE
    /\ cleanedUp' = TRUE
    /\ \E detached \in BOOLEAN :
           /\ refsAttached' = ~detached
           /\ stream' = StopTracks(~detached, srcObject, stream)
    /\ rafPending' = CancelFrame(animationFrameId, rafPending)
    /\ resizeListener' = RemoveListener(resizeHandler, resizeListener)
    /\ UNCHANGED <<pc, resizeHandler, uiVars, handLandmarkerRef, animationFrameId,
                   sceneReady, shapeRotX, shapeRotY, cameraZ, srcObject, nextRafId,
                   videoTime, lastVideoTime, setupFailed, loopStarted, ticks, renders,
                   detectCalls, threw, det, detLen, applied, lastProcessed, target>>

Next ==
    \/ VisionResolved
    \/ VisionRejected
    \/ ModelResolved
    \/ ModelRejected
    \/ StreamGranted
    \/ StreamDenied
    \/ LoadedData
    \/ DismissInstructions
    \/ Tick
    \/ Cleanup

Spec == Init /\ [][Next]_vars

\* ------------------------------------------------------------- properties
ZoomLo == ZoomNear * ZoomUnit
ZoomHi == ZoomFar * ZoomUnit

\* a step that executes predictWebcam
TickStep == ticks' = ticks + 1

\* no callback of initialize or initWebcam is still to come
SetupQuiescent == pc \in {"done", "hung"}

\* Every division of the model is exact: after k ticks the three smoothed
\* values are multiples of 10^(MaxTicks - k).
ExactArithmetic ==
    /\ ticks <= MaxTicks
    /\ shapeRotX % Pow10(MaxTicks - ticks) = 0
    /\ shapeRotY % Pow10(MaxTicks - ticks) = 0
    /\ cameraZ % Pow10(MaxTicks - ticks) = 0

\* C1: once the cleanup has run and every pending setup callback has
\* completed, no camera track is live and no resize listener of the session
\* is attached.
C1_ReleasedAfterTeardown ==
    (cleanedUp /\ SetupQuiescent) => (stream # "live" /\ ~resizeListener)

\* C2: after the cleanup no animation frame request of the loop is pending
\* and predictWebcam is never executed again, whenever the cleanup ran.
C2_LoopStopsAfterTeardown ==
    /\ [](cleanedUp => rafPending = {})
    /\ [][cleanedUp => ticks' = ticks]_vars

\* the cleanup ran between two ticks and cancelled the pending request
C2_Witness ==
    cleanedUp /\ loopStarted /\ ~threw /\ ticks >= 2 /\ animationFrameId # 0

\* C3: a tick whose detected hand has fewer than 21 keypoints behaves as a
\* no-hand tick: no exception, idle rotation, zoom unchanged, one render,
\* the next tick requested.
C3_ShortHandIsNoHand ==
    [][(TickStep /\ det' = "hand" /\ detLen' < FullHand)
        => /\ ~threw'
           /\ shapeRotY' = shapeRotY + IdleYMilli * Scale
           /\ shapeRotX' = shapeRotX + IdleXMilli * Scale
           /\ cameraZ' = cameraZ
           /\ renders' = renders + 1
           /\ Cardinality(rafPending') = 1]_vars

\* C4: a tick whose frame time equals the last processed one does not call
\* the estimator and uses the outcome of the last processed frame: after a
\* hand-present frame it is not treated as a no-hand tick.
C4_SkippedFrameRetainsOutcome ==
    [][(TickStep /\ det' = "skipped")
        => /\ detectCalls' = detectCalls
           /\ (lastProcessed = "hand" => applied' # "idle")]_vars

\* C5: the camera distance stays within [3, 8], and a gesture tick moves it
\* from where it was toward the clamped zoom target, which lies in [3, 8].
C5_CameraDistanceInRange ==
    /\ [](sceneReady => (ZoomLo <= cameraZ /\ cameraZ <= ZoomHi))
    /\ [](applied = "gesture" => (ZoomLo <= target.zoom /\ target.zoom <= ZoomHi))
    /\ [][(TickStep /\ applied' = "gesture")
           => /\ Min(cameraZ, target'.zoom) <= cameraZ'
              /\ cameraZ' <= Max(cameraZ, target'.zoom)]_vars

\* a gesture whose raw mapped value lies below 3 has been applied
C5_Witness ==
    applied = "gesture" /\ target.raw < ZoomLo /\ cameraZ < CameraStartZ * ZoomUnit

\* C6: a tick whose detection reports no hand adds the fixed positive idle
\* constants to both rotation axes, computes no gesture target and leaves
\* the camera distance unchanged.
C6_NoHandIdleRotation ==
    [][(TickStep /\ det' = "nohand")
        => /\ shapeRotY' = shapeRotY + IdleYMilli * Scale
           /\ shapeRotX' = shapeRotX + IdleXMilli * Scale
           /\ shapeRotY' > shapeRotY /\ shapeRotX' > shapeRotX
           /\ cameraZ' = cameraZ
           /\ target' = target
           /\ applied' = "idle"]_vars

\* a no-hand tick after a hand had set a gesture target away from the state
C6_Witness ==
    /\ det = "nohand" /\ applied = "idle"
    /\ target # NoTarget
    /\ cameraZ # target.zoom

\* C7: after a setup step failed while mounted, the error is set, loading
\* is off, initialize has ended and is not run again, the loop was never
\* started and the session is not Ready.
C7_SetupFailureIsFatal ==
    setupFailed
        => /\ error # "null"
           /\ ~loading
           /\ pc = "done"
           /\ ~loopStarted /\ ticks = 0 /\ rafPending = {} /\ animationFrameId = 0
           /\ status # "Ready! Show your hand."
           /\ ~showInstructions

\* the camera was denied and the session was torn down afterwards
C7_Witness == setupFailed /\ stream = "denied" /\ cleanedUp

\* C8: the zoom target is 8 for a pinch distance up to 0.05, 3 from 0.3 on,
\* the linear interpolation from 8 down to 3 in between, and it does not
\* increase with the distance (it decreases strictly between 0.05 and 0.3).
C8_ZoomTargetMapping ==
    target # NoTarget =>
        LET d == target.distance
            z == target.zoom
        IN  /\ d <= PinchNear => z = ZoomHi
            /\ d >= PinchFar => z = ZoomLo
            /\ (PinchNear < d /\ d < PinchFar)
                   => (z - ZoomHi) * (PinchFar - PinchNear)
                          = (d - PinchNear) * (ZoomLo - ZoomHi)
            /\ \A o \in PinchOffsets :
                   LET d2 == PinchDistance(Point(o[1], o[2]), Point(0, 0))
                   IN  /\ d2 >= d => ClampedZoom(d2) <= z
                       /\ (d2 > d /\ PinchNear <= d /\ d2 <= PinchFar) => ClampedZoom(d2) < z

\* a pinch distance strictly between the two ends has been mapped
C8_Witness ==
    target # NoTarget /\ PinchNear < target.distance /\ target.distance < PinchFar

\* C9: every tick renders once and leaves exactly one next tick requested,
\* so that the loop runs until teardown.
C9_EveryTickRendersAndReschedules ==
    [][TickStep => (renders' = renders + 1 /\ Cardinality(rafPending') = 1)]_vars

\* C10: a gesture tick moves each smoothed scalar a tenth of the way to its
\* target: the remaining distance is exactly 9/10 of the previous one, on
\* the same side of the target, and a value at its target stays there.
C10_SmoothingContracts ==
    [][(TickStep /\ applied' = "gesture")
        => LET Contracts(old, new, tgt) ==
                   /\ 10 * (new - tgt) = (10 - LerpTenths) * (old - tgt)
                   /\ Abs(new - tgt) <= Abs(old - tgt)
                   /\ (old <= tgt => (old <= new /\ new <= tgt))
                   /\ (old >= tgt => (old >= new /\ new >= tgt))
                   /\ (old = tgt => new = old)
           IN  /\ Contracts(shapeRotX, shapeRotX', target'.rotX)
               /\ Contracts(shapeRotY, shapeRotY', target'.rotY)
               /\ Contracts(cameraZ, cameraZ', target'.zoom)]_vars

\* the last of MaxTicks gesture ticks toward one target, still short of it
C10_Witness ==
    /\ applied = "gesture" /\ detectCalls = MaxTicks
    /\ cameraZ # target.zoom /\ shapeRotY # target.rotY
    /\ Abs(cameraZ - target.zoom) * 10
           < Abs(CameraStartZ * ZoomUnit - target.zoom) * 8

\* the two outcomes of initialize
SessionReady == ~loading /\ loopStarted /\ status = "Ready! Show your hand."
SessionError == ~loading /\ error # "null"

\* C11: in a mounted session initialize never stays suspended for good once
\* its requests are answered (a granted stream is not left without a
\* continuation), and when it has finished the session is in exactly one of
\* Ready (loading off, loop started) and Error (loading off, error set).
C11_InitializationFinishes ==
    isMounted =>
        /\ pc # "hung"
        /\ pc = "done" => (~loading /\ (SessionReady # SessionError))

====
